---- MODULE Spec2Model ----
(***************************************************************************)
(* forge-htmx: named template fragments ({% htmxfragment %}), the targeted *)
(* renderer that renders one fragment of a cached template, and the view   *)
(* mixin that classifies a request and routes it.                          *)
(*                                                                         *)
(* A string is a sequence of characters; rendered markup is a sequence of  *)
(* pieces [a, v] (an attribute or a text run with its value), so that      *)
(* concatenation is \o and two renders are equal iff they are equal piece  *)
(* by piece.                                                               *)
(***************************************************************************)
EXTENDS Integers, Sequences, FiniteSets, TLC

\* Bounds of the model: the number of tags and text runs of a template.
MaxNodes == 3
MaxNodesConcurrent == 2

VARIABLES
    stack,      \* the template parser's open constructs, innermost last
    phase,      \* "parsing" | "cached" | "error"
    compileError, \* the TemplateSyntaxError raised by the tag, if any
    template,   \* the compiled template the engine caches: [name, nodelist]
    resp,       \* per thread, the response object being rendered
    view,       \* the view class's attributes
    request,    \* the request the view was set up with
    called      \* what dispatch and the handler it chose have done

vars == <<stack, phase, compileError, template, resp, view, request, called>>

Threads == {1, 2}

(***************************************************************************)
(* Strings and markup                                                      *)
(***************************************************************************)
DQ == "\""
SQ == "'"
Quotes == {DQ, SQ}

\* str.strip(chars): drops every leading and trailing character in chars.
RECURSIVE LStrip(_, _)
LStrip(s, chars) ==
    IF Len(s) > 0 /\ Head(s) \in chars THEN LStrip(Tail(s), chars) ELSE s

RECURSIVE RStrip(_, _)
RStrip(s, chars) ==
    IF Len(s) > 0 /\ s[Len(s)] \in chars
    THEN RStrip(SubSeq(s, 1, Len(s) - 1), chars)
    ELSE s

Strip(s, chars) == RStrip(LStrip(s, chars), chars)

Piece(a, v) == [a |-> a, v |-> v]

\* f'<div fhx-fragment="{fragment_name}" hx-swap="outerHTML" hx-target="this" hx-indicator="this">'
FragmentOpenMarkup(fragment_name) ==
    << Piece("<div", <<>>),
       Piece("fhx-fragment", fragment_name),
       Piece("hx-swap", <<"outerHTML">>),
       Piece("hx-target", <<"this">>),
       Piece("hx-indicator", <<"this">>),
       Piece(">", <<>>) >>

FragmentCloseMarkup == << Piece("</div>", <<>>) >>

\* f'<div hx-get hx-trigger="fhxLoad from:body" fhx-fragment="{self.fragment_name}" ...></div>'
LazyPlaceholderMarkup(fragment_name) ==
    << Piece("<div", <<>>),
       Piece("hx-get", <<>>),
       Piece("hx-trigger", <<"fhxLoad from:body">>),
       Piece("fhx-fragment", fragment_name),
       Piece("hx-swap", <<"outerHTML">>),
       Piece("hx-target", <<"this">>),
       Piece("hx-indicator", <<"this">>),
       Piece(">", <<>>),
       Piece("</div>", <<>>) >>

(***************************************************************************)
(* Compiled nodes.  Every node is a record of the same shape.              *)
(***************************************************************************)
MakeNode(kind, s, fragment_name, lazy, nodelist) ==
    [kind |-> kind, s |-> s, fragment_name |-> fragment_name,
     lazy |-> lazy, nodelist |-> nodelist]

TextNode(s) == MakeNode("text", s, <<>>, FALSE, <<>>)
BlockNode(nodelist) == MakeNode("block", <<>>, <<>>, FALSE, nodelist)
ExtendsNode(nodelist) == MakeNode("extends", <<>>, <<>>, FALSE, nodelist)

\* HTMXFragmentNode.__init__: the children are stored between two text nodes
\* that carry the container's opening and closing markup.
HTMXFragmentNodeNoClose(fragment_name, nodelist, lazy) ==
    MakeNode("fragment", <<>>, fragment_name, lazy,
             <<TextNode(FragmentOpenMarkup(fragment_name))>> \o nodelist)

HTMXFragmentNode(fragment_name, nodelist, lazy) ==
    MakeNode("fragment", <<>>, fragment_name, lazy,
             <<TextNode(FragmentOpenMarkup(fragment_name))>>
                 \o nodelist
                 \o <<TextNode(FragmentCloseMarkup)>>)

\* Node.render / NodeList.render.  A node list renders each node with
\* render(context), that is with allow_lazy at its default, True.
RECURSIVE Render(_, _)
RECURSIVE RenderNodeList(_)
RECURSIVE RenderBlocks(_)

RenderNodeList(nodelist) ==
    IF nodelist = <<>> THEN <<>>
    ELSE Render(Head(nodelist), TRUE) \o RenderNodeList(Tail(nodelist))

\* An ExtendsNode renders the parent layout with this template's blocks; the
\* layout is taken to show each top-level block, and nothing outside a block.
RenderBlocks(nodelist) ==
    IF nodelist = <<>> THEN <<>>
    ELSE (IF Head(nodelist).kind = "block"
          THEN Render(Head(nodelist), TRUE) ELSE <<>>)
         \o RenderBlocks(Tail(nodelist))

RenderEagerLazy(node, allow_lazy) ==
    CASE node.kind = "text" -> node.s
      [] node.kind = "fragment" ->
            IF allow_lazy \/ node.lazy
            THEN LazyPlaceholderMarkup(node.fragment_name)
            ELSE RenderNodeList(node.nodelist)
      [] node.kind = "block" -> RenderNodeList(node.nodelist)
      [] node.kind = "extends" -> RenderBlocks(node.nodelist)

Render(node, allow_lazy) ==
    CASE node.kind = "text" -> node.s
      [] node.kind = "fragment" ->
            IF allow_lazy /\ node.lazy
            THEN LazyPlaceholderMarkup(node.fragment_name)
            ELSE RenderNodeList(node.nodelist)
      [] node.kind = "block" -> RenderNodeList(node.nodelist)
      [] node.kind = "extends" -> RenderBlocks(node.nodelist)

(***************************************************************************)
(* Paths: a node of the tree is referred to by the indices leading to it.  *)
(***************************************************************************)
RECURSIVE NodeAt(_, _)
NodeAt(nodelist, path) ==
    IF Len(path) = 1 THEN nodelist[path[1]]
    ELSE NodeAt(nodelist[path[1]].nodelist, Tail(path))

Prefixed(i, paths) == [k \in 1..Len(paths) |-> <<i>> \o paths[k]]

\* NodeList.get_nodes_by_type(HTMXFragmentNode) and Node.get_nodes_by_type:
\* the node itself when it is a fragment, then the matches of its child node
\* list, for each node in order.  The result lists references (paths).
RECURSIVE GetNodesByType(_)
RECURSIVE GetNodesByTypeFrom(_, _)

GetNodesByTypeFrom(nodelist, i) ==
    IF i > Len(nodelist) THEN <<>>
    ELSE (IF nodelist[i].kind = "fragment" THEN << <<i>> >> ELSE <<>>)
         \o Prefixed(i, GetNodesByType(nodelist[i].nodelist))
         \o GetNodesByTypeFrom(nodelist, i + 1)

GetNodesByTypeTopLevel(nodelist) ==
    LET idx == {i \in 1..Len(nodelist) : nodelist[i].kind = "fragment"}
        RECURSIVE Asc(_)
        Asc(S) == IF S = {} THEN <<>>
                  ELSE LET m == CHOOSE x \in S : \A y \in S : x <= y
                       IN << <<m>> >> \o Asc(S \ {m})
    IN Asc(idx)

GetNodesByType(nodelist) == GetNodesByTypeFrom(nodelist, 1)

(***************************************************************************)
(* The template parser and the {% htmxfragment %} tag                      *)
(***************************************************************************)
NoError == [type |-> "none", tag |-> <<>>, fragment |-> <<>>, template |-> <<>>]

TemplateSyntaxError(tag) ==
    [type |-> "TemplateSyntaxError", tag |-> tag, fragment |-> <<>>,
     template |-> <<>>]

Frame(kind, fragment_name, lazy, nodelist) ==
    [kind |-> kind, fragment_name |-> fragment_name, lazy |-> lazy,
     nodelist |-> nodelist]

NoTemplate == [name |-> <<>>, nodelist |-> <<>>]

\* The text runs a template is written with.
TextRuns == { <<Piece("text", <<"x">>)>> }

\* Token lists as token.split_contents() yields them, the tag name first.
TagName == <<"htmxfragment">>
FragmentTags ==
    { <<TagName>>,
      <<TagName, <<DQ, "a", DQ>> >>,
      <<TagName, <<SQ, "b", SQ>> >>,
      <<TagName, <<DQ, DQ>> >>,
      <<TagName, <<DQ, "a", DQ>>, <<"lazy">> >>,
      <<TagName, <<"b">>, <<"lazy">> >>,
      <<TagName, <<DQ, "a", DQ>>, <<DQ, "lazy", DQ>> >>,
      <<TagName, <<DQ, "a", DQ>>, <<"lazy">>, <<"lazy">> >> }

\* The number of tags and text runs in a node list (a fragment's two marker
\* text nodes are not counted).
RECURSIVE Size(_)
Size(nodelist) ==
    IF nodelist = <<>> THEN 0
    ELSE (IF Head(nodelist).kind = "fragment"
          THEN Size(Head(nodelist).nodelist) - 1
          ELSE 1 + Size(Head(nodelist).nodelist))
         + Size(Tail(nodelist))

RECURSIVE Parsed(_)
Parsed(frames) ==
    IF frames = <<>> THEN 0
    ELSE (IF Head(frames).kind = "root" THEN 0 ELSE 1)
         + Size(Head(frames).nodelist) + Parsed(Tail(frames))

Top == stack[Len(stack)]

\* The node joins the node list of the innermost open construct.
Append1(frames, node) ==
    [frames EXCEPT ![Len(frames)].nodelist = Append(@, node)]

Pop(frames) == SubSeq(frames, 1, Len(frames) - 1)

CompileUnchanged == UNCHANGED <<template, resp, view, request, called>>

\* A run of text between two tags becomes one TextNode.
ParseText(max, s) ==
    /\ phase = "parsing"
    /\ Parsed(stack) < max
    /\ \/ Top.nodelist = <<>>
       \/ Top.nodelist # <<>> /\ Top.nodelist[Len(Top.nodelist)].kind # "text"
    /\ stack' = Append1(stack, TextNode(s))
    /\ UNCHANGED <<phase, compileError>>
    /\ CompileUnchanged

\* {% extends %}: allowed as the first tag only; the rest of the template
\* becomes the ExtendsNode's node list.
ParseExtends(max) ==
    /\ phase = "parsing"
    /\ Parsed(stack) < max
    /\ Len(stack) = 1
    /\ \A i \in 1..Len(Top.nodelist) : Top.nodelist[i].kind = "text"
    /\ stack' = Append(stack, Frame("extends", <<>>, FALSE, <<>>))
    /\ UNCHANGED <<phase, compileError>>
    /\ CompileUnchanged

\* {% block %} ... {% endblock %}: a node that holds children and is not a
\* fragment.
ParseBlock(max) ==
    /\ phase = "parsing"
    /\ Parsed(stack) < max
    /\ stack' = Append(stack, Frame("block", <<>>, FALSE, <<>>))
    /\ UNCHANGED <<phase, compileError>>
    /\ CompileUnchanged

ParseEndBlock ==
    /\ phase = "parsing"
    /\ Top.kind = "block"
    /\ stack' = Append1(Pop(stack), BlockNode(Top.nodelist))
    /\ UNCHANGED <<phase, compileError>>
    /\ CompileUnchanged

\* htmxfragment(parser, token), up to parser.parse(("endhtmxfragment",)):
\* the checks on the tokens.  [ok, fragment_name, fragment_lazy].
TagArguments(tokens) ==
    CASE Len(tokens) = 2 ->
            [ok |-> TRUE, fragment_name |-> Strip(tokens[2], Quotes),
             fragment_lazy |-> FALSE]
      [] Len(tokens) = 3 ->
            IF tokens[3] # <<"lazy">>
            THEN [ok |-> FALSE, fragment_name |-> <<>>, fragment_lazy |-> FALSE]
            ELSE [ok |-> TRUE, fragment_name |-> Strip(tokens[2], Quotes),
                  fragment_lazy |-> TRUE]
      [] OTHER ->
            [ok |-> FALSE, fragment_name |-> <<>>, fragment_lazy |-> FALSE]

htmxfragment(max, tokens) ==
    /\ phase = "parsing"
    /\ Parsed(stack) < max
    /\ LET args == TagArguments(tokens) IN
       IF args.ok
       THEN /\ stack' = Append(stack, Frame("fragment", args.fragment_name,
                                            args.fragment_lazy, <<>>))
            /\ UNCHANGED <<phase, compileError>>
       ELSE /\ phase' = "error"
            /\ compileError' = TemplateSyntaxError(tokens[1])
            /\ UNCHANGED stack
    /\ CompileUnchanged

\* {% endhtmxfragment %}: parser.parse returns the children and the tag
\* function returns the HTMXFragmentNode.
endhtmxfragment ==
    /\ phase = "parsing"
    /\ Top.kind = "fragment"
    /\ stack' = Append1(Pop(stack),
                        HTMXFragmentNode(Top.fragment_name, Top.nodelist,
                                         Top.lazy))
    /\ UNCHANGED <<phase, compileError>>
    /\ CompileUnchanged

PageName == <<"page", ".html">>

\* End of the template source: the engine caches the compiled template.
FinishCompile ==
    /\ phase = "parsing"
    /\ Top.kind \in {"root", "extends"}
    /\ template' =
          [name |-> PageName,
           nodelist |->
              IF Top.kind = "extends"
              THEN stack[1].nodelist \o <<ExtendsNode(Top.nodelist)>>
              ELSE Top.nodelist]
    /\ phase' = "cached"
    /\ stack' = <<>>
    /\ UNCHANGED <<compileError, resp, view, request, called>>

Compile(max) ==
    \/ \E s \in TextRuns : ParseText(max, s)
    \/ ParseExtends(max)
    \/ ParseBlock(max)
    \/ ParseEndBlock
    \/ \E tokens \in FragmentTags : htmxfragment(max, tokens)
    \/ endhtmxfragment
    \/ FinishCompile

(***************************************************************************)
(* Responses: HTMXTemplateFragmentResponse and the plain TemplateResponse  *)
(***************************************************************************)
ValueError(fragment, template_name) ==
    [type |-> "ValueError", tag |-> <<>>, fragment |-> fragment,
     template |-> template_name]

TemplateDoesNotExist ==
    [type |-> "TemplateDoesNotExist", tag |-> <<>>, fragment |-> <<>>,
     template |-> <<>>]

NoResponse ==
    [pc |-> "none", class |-> "none", htmx_fragment_name |-> <<>>,
     template_name |-> <<>>, content_type |-> "None", node |-> <<>>,
     returned |-> FALSE, content |-> <<>>, error |-> NoError]

\* HTMXTemplateFragmentResponse.__init__
HTMXTemplateFragmentResponse(htmx_fragment_name, template_names, content_type) ==
    [NoResponse EXCEPT !.pc = "new", !.class = "fragment",
                       !.htmx_fragment_name = htmx_fragment_name,
                       !.template_name = template_names,
                       !.content_type = content_type]

TemplateResponse(template_names, content_type) ==
    [NoResponse EXCEPT !.pc = "new", !.class = "page",
                       !.template_name = template_names,
                       !.content_type = content_type]

\* resolve_template: the first name of the list the engine can load.  The
\* engine holds one compiled template.
Loadable(names) == {i \in 1..Len(names) : names[i] = template.name}

\* The node list the search starts from, with the path that leads to it.
SearchSpace(nodelist) ==
    IF Len(nodelist) = 1 /\ nodelist[1].kind = "extends"
    THEN [base |-> <<1>>, nodelist |-> nodelist[1].nodelist]
    ELSE [base |-> <<>>, nodelist |-> nodelist]

\* The fragment nodes of the search space named target, in the order
\* get_nodes_by_type lists them.
Matches(nodelist, target) ==
    SelectSeq(GetNodesByType(nodelist),
              LAMBDA p : NodeAt(nodelist, p).fragment_name = target)

\* rendered_content up to the match: [found, node, error].
LocateEmptyOnMiss(nodelist, target, template_name) ==
    LET space == SearchSpace(nodelist)
        found == Matches(space.nodelist, target)
    IN IF found # <<>>
       THEN [pc |-> "located", node |-> space.base \o found[1],
             returned |-> FALSE, error |-> NoError]
       ELSE [pc |-> "rendered", node |-> <<>>, returned |-> TRUE,
             error |-> NoError]

Locate(nodelist, target, template_name) ==
    LET space == SearchSpace(nodelist)
        found == Matches(space.nodelist, target)
    IN IF found # <<>>
       THEN [pc |-> "located", node |-> space.base \o found[1],
             returned |-> FALSE, error |-> NoError]
       ELSE [pc |-> "failed", node |-> <<>>, returned |-> FALSE,
             error |-> ValueError(target, template_name)]

ResponseUnchanged ==
    UNCHANGED <<stack, phase, compileError, view, request, called>>

\* rendered_content, first half: resolve the template, unwrap, search.
LocateFragment(t) ==
    /\ resp[t].pc = "new"
    /\ resp[t].class = "fragment"
    /\ phase = "cached"
    /\ IF Loadable(resp[t].template_name) = {}
       THEN resp' = [resp EXCEPT ![t].pc = "failed",
                                 ![t].error = TemplateDoesNotExist]
       ELSE LET r == Locate(template.nodelist, resp[t].htmx_fragment_name,
                            template.name)
            IN resp' = [resp EXCEPT ![t].pc = r.pc, ![t].node = r.node,
                                    ![t].returned = r.returned,
                                    ![t].error = r.error]
    /\ UNCHANGED template
    /\ ResponseUnchanged

\* A render that switched the matched node to eager before rendering it.
RECURSIVE ClearLazy(_, _)
ClearLazy(nodelist, path) ==
    IF Len(path) = 1
    THEN [nodelist EXCEPT ![path[1]].lazy = FALSE]
    ELSE [nodelist EXCEPT ![path[1]].nodelist = ClearLazy(@, Tail(path))]

RenderFragmentClearingLazy(t) ==
    /\ resp[t].pc = "located"
    /\ resp' = [resp EXCEPT
                  ![t].pc = "rendered",
                  ![t].returned = TRUE,
                  ![t].content = Render(NodeAt(template.nodelist, resp[t].node),
                                        FALSE)]
    /\ template' = [template EXCEPT
                      !.nodelist = ClearLazy(@, resp[t].node)]
    /\ ResponseUnchanged

\* rendered_content, second half: bind a new context to the template and
\* render the matched node alone, with allow_lazy=False.
RenderFragment(t) ==
    /\ resp[t].pc = "located"
    /\ resp' = [resp EXCEPT
                  ![t].pc = "rendered",
                  ![t].returned = TRUE,
                  ![t].content = Render(NodeAt(template.nodelist, resp[t].node),
                                        FALSE)]
    /\ UNCHANGED template
    /\ ResponseUnchanged

\* TemplateResponse.rendered_content: the whole template.
RenderPage(t) ==
    /\ resp[t].pc = "new"
    /\ resp[t].class = "page"
    /\ phase = "cached"
    /\ IF Loadable(resp[t].template_name) = {}
       THEN resp' = [resp EXCEPT ![t].pc = "failed",
                                 ![t].error = TemplateDoesNotExist]
       ELSE resp' = [resp EXCEPT
                       ![t].pc = "rendered",
                       ![t].returned = TRUE,
                       ![t].content = RenderNodeList(template.nodelist)]
    /\ UNCHANGED template
    /\ ResponseUnchanged

\* The response has been sent, or its error has reached the caller.
Discard(t) ==
    /\ resp[t].pc \in {"rendered", "failed"}
    /\ resp' = [resp EXCEPT ![t] = NoResponse]
    /\ UNCHANGED template
    /\ ResponseUnchanged

RenderStep(t) ==
    \/ LocateFragment(t)
    \/ RenderFragment(t)
    \/ RenderPage(t)
    \/ Discard(t)

(***************************************************************************)
(* HTMXViewMixin                                                           *)
(***************************************************************************)
NoRequest == [method |-> "none", headers |-> <<>>]
NoCall == [pc |-> "none", name |-> <<>>, kwargs |-> <<>>]
NoView ==
    [htmx_template_name |-> <<>>, template_names |-> <<>>,
     content_type |-> "None", handlers |-> {}]

\* request.headers.get(key, default)
HeaderGet(headers, key, default) ==
    IF key \in DOMAIN headers THEN headers[key] ELSE default

None == <<"None">>

is_htmx_request_any_value(req) ==
    HeaderGet(req.headers, "HX-Request", None) # None

is_htmx_request(req) ==
    HeaderGet(req.headers, "HX-Request", None) = <<"true">>

htmx_fragment_name(req) == HeaderGet(req.headers, "FHX-Fragment", <<>>)

htmx_action_name(req) == HeaderGet(req.headers, "FHX-Action", <<>>)

\* str.lower() of the request method.
Lower(method) ==
    CASE method = "GET" -> "get"
      [] method = "POST" -> "post"
      [] method = "ACTION" -> "action"

\* An identifier is the sequence of its words, joined by "_" in the source.
\* f"htmx_{self.request.method.lower()}" and f"_{self.htmx_action_name}"
HandlerName(req) ==
    IF htmx_action_name(req) # <<>>
    THEN <<"htmx", Lower(req.method)>> \o htmx_action_name(req)
    ELSE <<"htmx", Lower(req.method)>>

\* getattr(self, method, None): the handlers the view class defines, and the
\* attributes the mixin itself gives every view under an htmx_ name.
\* [value, callable]; a value of <<>> is falsy.
GetAttr(v, req, name) ==
    CASE name \in v.handlers -> [value |-> name, callable |-> TRUE]
      [] name = <<"htmx", "template", "name">> ->
            [value |-> v.htmx_template_name, callable |-> FALSE]
      [] name = <<"htmx", "fragment", "name">> ->
            [value |-> htmx_fragment_name(req), callable |-> FALSE]
      [] name = <<"htmx", "action", "name">> ->
            [value |-> htmx_action_name(req), callable |-> FALSE]
      [] name = <<"htmx", "fragment", "response", "class">> ->
            [value |-> name, callable |-> TRUE]
      [] OTHER -> [value |-> <<>>, callable |-> FALSE]

\* The verbs the view class implements (View.dispatch looks them up).
Verbs == {"get"}

\* View.dispatch: the verb's handler, or http_method_not_allowed.
DefaultDispatch(req) ==
    IF Lower(req.method) \in Verbs
    THEN [pc |-> "verb_handler", name |-> <<Lower(req.method)>>, kwargs |-> <<>>]
    ELSE [pc |-> "not_allowed", name |-> <<>>, kwargs |-> <<>>]

DispatchResult(v, req) ==
    IF is_htmx_request(req)
    THEN LET handler == GetAttr(v, req, HandlerName(req)) IN
         IF handler.value # <<>>
         THEN IF handler.callable
              THEN [pc |-> "htmx_handler", name |-> HandlerName(req),
                    kwargs |-> <<>>]
              ELSE [pc |-> "type_error", name |-> HandlerName(req),
                    kwargs |-> <<>>]
         ELSE DefaultDispatch(req)
    ELSE DefaultDispatch(req)

\* re.sub(r"\.html$", "_htmx.html", template_name).  A template name is the
\* sequence of its segments, an extension being a segment of its own.
ReSubHtml(template_name) ==
    IF template_name # <<>> /\ template_name[Len(template_name)] = ".html"
    THEN SubSeq(template_name, 1, Len(template_name) - 1)
            \o <<"_htmx", ".html">>
    ELSE template_name

\* [re.sub(...) for template_name in default_template_names]
Suffixed(names) == [i \in 1..Len(names) |-> ReSubHtml(names[i])]

get_template_names_defaults_first(v, req) ==
    IF is_htmx_request(req)
    THEN IF v.htmx_template_name # <<>>
         THEN <<v.htmx_template_name>>
         ELSE v.template_names \o Suffixed(v.template_names)
    ELSE v.template_names

get_template_names(v, req) ==
    IF is_htmx_request(req)
    THEN IF v.htmx_template_name # <<>>
         THEN <<v.htmx_template_name>>
         ELSE Suffixed(v.template_names) \o v.template_names
    ELSE v.template_names

\* dict.setdefault on the keyword arguments.
SetDefault(kwargs, key, value) ==
    IF key \in DOMAIN kwargs THEN kwargs
    ELSE [k \in DOMAIN kwargs \cup {key} |->
            IF k = key THEN value ELSE kwargs[k]]

\* render_to_response(context, **response_kwargs): the response object.
RenderToResponseAlwaysFragment(v, req, response_kwargs) ==
    IF is_htmx_request(req)
    THEN HTMXTemplateFragmentResponse(
            htmx_fragment_name(req), get_template_names(v, req),
            SetDefault(response_kwargs, "content_type",
                       v.content_type)["content_type"])
    ELSE TemplateResponse(
            get_template_names(v, req),
            SetDefault(response_kwargs, "content_type",
                       v.content_type)["content_type"])

RenderToResponse(v, req, response_kwargs) ==
    IF is_htmx_request(req) /\ htmx_fragment_name(req) # <<>>
    THEN HTMXTemplateFragmentResponse(
            htmx_fragment_name(req), get_template_names(v, req),
            SetDefault(response_kwargs, "content_type",
                       v.content_type)["content_type"])
    ELSE TemplateResponse(
            get_template_names(v, req),
            SetDefault(response_kwargs, "content_type",
                       v.content_type)["content_type"])

ViewUnchanged == UNCHANGED <<stack, phase, compileError, template, view>>

\* view.setup(request)
setup(req) ==
    /\ request = NoRequest
    /\ request' = req
    /\ UNCHANGED <<resp, called>>
    /\ ViewUnchanged

\* HTMXViewMixin.dispatch
dispatch ==
    /\ request # NoRequest
    /\ called.pc = "none"
    /\ called' = DispatchResult(view, request)
    /\ UNCHANGED <<resp, request>>
    /\ ViewUnchanged

\* The handler dispatch invoked calls render_to_response.
render_to_response(response_kwargs) ==
    /\ called.pc \in {"htmx_handler", "verb_handler"}
    /\ resp[1].pc = "none"
    /\ resp' = [resp EXCEPT ![1] = RenderToResponse(view, request,
                                                    response_kwargs)]
    /\ called' = [called EXCEPT !.pc = "responded", !.kwargs = response_kwargs]
    /\ UNCHANGED request
    /\ ViewUnchanged

(***************************************************************************)
(* The compiler and the targeted renderer                                  *)
(***************************************************************************)
\* The fragment names a caller asks for.
RequestedNames == { <<"a">>, <<"b">> }

NewFragmentResponse(t, name) ==
    /\ phase = "cached"
    /\ resp[t].pc = "none"
    /\ resp' = [resp EXCEPT
                  ![t] = HTMXTemplateFragmentResponse(name, <<template.name>>,
                                                      "None")]
    /\ UNCHANGED template
    /\ ResponseUnchanged

NewPageResponse(t) ==
    /\ phase = "cached"
    /\ resp[t].pc = "none"
    /\ resp' = [resp EXCEPT ![t] = TemplateResponse(<<template.name>>, "None")]
    /\ UNCHANGED template
    /\ ResponseUnchanged

InitParsing ==
    /\ stack = <<Frame("root", <<>>, FALSE, <<>>)>>
    /\ phase = "parsing"
    /\ compileError = NoError
    /\ template = NoTemplate
    /\ resp = [t \in Threads |-> NoResponse]
    /\ view = NoView
    /\ request = NoRequest
    /\ called = NoCall

Init == InitParsing

Next ==
    \/ Compile(MaxNodes)
    \/ \E name \in RequestedNames : NewFragmentResponse(1, name)
    \/ NewPageResponse(1)
    \/ RenderStep(1)

Spec == Init /\ [][Next]_vars

\* Two threads render the cached template at once.
NextConcurrent ==
    \/ Compile(MaxNodesConcurrent)
    \/ \E t \in Threads :
          \/ \E name \in RequestedNames : NewFragmentResponse(t, name)
          \/ NewPageResponse(t)
          \/ RenderStep(t)

SpecConcurrent == Init /\ [][NextConcurrent]_vars

(***************************************************************************)
(* A view serving one request from a cached template                       *)
(***************************************************************************)
TxtName == <<"page", ".txt">>
FragName == <<"frag", ".html">>
HtmxPageName == <<"page", "_htmx", ".html">>

Text1 == TextNode(<<Piece("text", <<"x">>)>>)

\* {% htmxfragment "a" lazy %}x{% htmxfragment "b" lazy %}x{% end.. %}{% end.. %}
NestedTree ==
    << HTMXFragmentNode(<<"a">>,
                        <<Text1, HTMXFragmentNode(<<"b">>, <<Text1>>, TRUE)>>,
                        TRUE) >>

\* {% extends %}{% block %}{% htmxfragment "a" %}x{% end.. %}{% endblock %}
ExtendingTree ==
    << ExtendsNode(<<BlockNode(<<HTMXFragmentNode(<<"a">>, <<Text1>>, FALSE)>>)>>) >>

SampleTemplates ==
    {[name |-> n, nodelist |-> tree] :
        n \in {PageName, HtmxPageName, FragName, TxtName},
        tree \in {NestedTree, ExtendingTree}}

Views ==
    [htmx_template_name : {<<>>, FragName},
     template_names : {<<PageName>>, <<TxtName>>, <<TxtName, PageName>>},
     content_type : {"None", "text/html"},
     handlers : SUBSET {<<"htmx", "get">>, <<"htmx", "get", "create">>}]

HeaderValues(key) ==
    CASE key = "HX-Request" -> {<<"true">>, <<"false">>}
      [] key = "FHX-Fragment" -> {<<>>, <<"a">>, <<"b">>}
      [] key = "FHX-Action" -> {<<>>, <<"create">>, <<"name">>}

HeaderNames == {"HX-Request", "FHX-Fragment", "FHX-Action"}

Headers ==
    UNION {{h \in [S -> UNION {HeaderValues(k) : k \in HeaderNames}] :
               \A k \in S : h[k] \in HeaderValues(k)} : S \in SUBSET HeaderNames}

Requests == [method : {"GET", "ACTION"}, headers : Headers]

KwargsGiven == {<<>>, [content_type |-> "text/plain"]}

InitView ==
    /\ stack = <<>>
    /\ phase = "cached"
    /\ compileError = NoError
    /\ template \in SampleTemplates
    /\ resp = [t \in Threads |-> NoResponse]
    /\ view \in Views
    /\ request = NoRequest
    /\ called = NoCall

NextView ==
    \/ \E req \in Requests : setup(req)
    \/ dispatch
    \/ \E response_kwargs \in KwargsGiven : render_to_response(response_kwargs)
    \/ RenderStep(1)

SpecView == InitView /\ [][NextView]_vars

(***************************************************************************)
(* Document order, stated on paths                                         *)
(***************************************************************************)
\* Every path to a node of the tree below nodelist.
RECURSIVE AllPaths(_)
AllPaths(nodelist) ==
    UNION {{<<i>>} \cup {<<i>> \o p : p \in AllPaths(nodelist[i].nodelist)} :
              i \in 1..Len(nodelist)}

FragmentPathsNamed(nodelist, name) ==
    {p \in AllPaths(nodelist) :
        /\ NodeAt(nodelist, p).kind = "fragment"
        /\ NodeAt(nodelist, p).fragment_name = name}

IsPrefix(p, q) == Len(p) <= Len(q) /\ SubSeq(q, 1, Len(p)) = p

\* p comes before q depth-first, pre-order: p is an ancestor of q, or p
\* turns to an earlier sibling where the two paths part.
Before(p, q) ==
    \/ p # q /\ IsPrefix(p, q)
    \/ \E i \in 1..Len(p) :
          /\ i <= Len(q)
          /\ SubSeq(p, 1, i - 1) = SubSeq(q, 1, i - 1)
          /\ p[i] < q[i]

FirstInDocumentOrder(paths) ==
    CHOOSE p \in paths : \A q \in paths \ {p} : Before(p, q)

RootIsOneExtends ==
    Len(template.nodelist) = 1 /\ template.nodelist[1].kind = "extends"

\* The children a fragment tag was compiled with.
Children(node) == SubSeq(node.nodelist, 2, Len(node.nodelist) - 1)

HasPiece(markup, a) == \E i \in 1..Len(markup) : markup[i].a = a

CountPieces(markup, a) == Cardinality({i \in 1..Len(markup) : markup[i].a = a})

FragmentResponses ==
    {t \in Threads : resp[t].class = "fragment" /\ resp[t].pc \notin {"none", "new"}
                     /\ resp[t].error # TemplateDoesNotExist}

(***************************************************************************)
(* C1.  Whenever the requested name occurs in the compiled tree, the       *)
(* targeted renderer matches the first fragment node of that name in       *)
(* depth-first, pre-order document order, at any depth, under a single     *)
(* extends root or not, with duplicates or not, and returns that node's    *)
(* render with allow_lazy=False.                                           *)
(***************************************************************************)
\* C1: a located or rendered fragment response holds the first node of its
\* name in document order and, once rendered, that node's allow_lazy=False render.
C1_FirstInDocumentOrder ==
    \A t \in FragmentResponses :
        LET named == FragmentPathsNamed(template.nodelist,
                                        resp[t].htmx_fragment_name)
        IN named # {} =>
              /\ resp[t].pc \in {"located", "rendered"}
              /\ resp[t].node = FirstInDocumentOrder(named)
              /\ resp[t].pc = "rendered" =>
                    /\ resp[t].returned
                    /\ resp[t].content =
                          Render(NodeAt(template.nodelist,
                                        FirstInDocumentOrder(named)), FALSE)

\* C1, reached: under a single extends root, a nested fragment whose name
\* occurs twice has been rendered.
C1_Witness ==
    /\ phase = "cached"
    /\ RootIsOneExtends
    /\ resp[1].pc = "rendered"
    /\ resp[1].class = "fragment"
    /\ Len(resp[1].node) >= 2
    /\ Cardinality(FragmentPathsNamed(template.nodelist,
                                      resp[1].htmx_fragment_name)) >= 2

(***************************************************************************)
(* C2.  When no fragment node of the search space (the root sequence, or   *)
(* the children of the extends node when the root is exactly one extends   *)
(* node) has the requested name, the targeted renderer ends in the         *)
(* not-found error carrying the fragment name and the template's name; it  *)
(* returns no string, and nothing continues the failed render.            *)
(***************************************************************************)
UnwrappedRoot ==
    IF RootIsOneExtends THEN template.nodelist[1].nodelist
    ELSE template.nodelist

\* C2: a fragment response whose name is not in the search space has failed
\* with the ValueError naming fragment and template, and returned nothing.
C2_NotFoundIsAnError ==
    \A t \in FragmentResponses :
        FragmentPathsNamed(UnwrappedRoot, resp[t].htmx_fragment_name) = {} =>
            /\ resp[t].pc = "failed"
            /\ ~resp[t].returned
            /\ resp[t].content = <<>>
            /\ resp[t].error = ValueError(resp[t].htmx_fragment_name,
                                          template.name)
            /\ ~ENABLED LocateFragment(t)
            /\ ~ENABLED RenderFragment(t)

\* C2, reached: under a single extends root that holds a, a request for b
\* has failed.
C2_Witness ==
    /\ phase = "cached"
    /\ RootIsOneExtends
    /\ resp[1].pc = "failed"
    /\ resp[1].error.type = "ValueError"
    /\ resp[1].error.fragment = <<"b">>
    /\ FragmentPathsNamed(template.nodelist, <<"a">>) # {}

(***************************************************************************)
(* C3.  Under any interleaving of two threads' renders, each targeted      *)
(* render returns the output of the fragment it asked for, no render       *)
(* changes the cached template, and any two full-page renders, whatever    *)
(* targeted renders ran between them, produce the same page.               *)
(***************************************************************************)
\* C3, the state part: own output for each targeted render, one page for all
\* full-page renders.
C3_OwnOutput ==
    /\ \A t \in Threads :
          resp[t].class = "fragment" /\ resp[t].pc = "rendered" =>
             /\ resp[t].content[2] =
                   Piece("fhx-fragment", resp[t].htmx_fragment_name)
             /\ resp[t].content =
                   Render(NodeAt(template.nodelist,
                                 FirstInDocumentOrder(
                                    FragmentPathsNamed(
                                       template.nodelist,
                                       resp[t].htmx_fragment_name))), FALSE)
    /\ \A t, u \in Threads :
          /\ resp[t].class = "page" /\ resp[t].pc = "rendered"
          /\ resp[u].class = "page" /\ resp[u].pc = "rendered"
          => resp[t].content = resp[u].content

\* C3: the state part holds always and no step changes the cached template.
C3_RendersLeaveTheTreeAlone ==
    /\ []C3_OwnOutput
    /\ [][phase = "cached" => template' = template]_vars

\* C3, reached: both threads have rendered, each a different fragment, one of
\* them deferred.
C3_Witness ==
    /\ resp[1].class = "fragment" /\ resp[1].pc = "rendered"
    /\ resp[2].class = "fragment" /\ resp[2].pc = "rendered"
    /\ resp[1].htmx_fragment_name # resp[2].htmx_fragment_name
    /\ NodeAt(template.nodelist, resp[1].node).lazy

(***************************************************************************)
(* C4.  A targeted render of a deferred fragment N ignores N's deferred    *)
(* flag: the output is C wrapped in the three-marker container and equals  *)
(* the full render of the same node with the flag off.                     *)
(*   As claimed: and the output holds no fetch-trigger marker at all.      *)
(*   As amended: the container itself holds no fetch-trigger marker, and   *)
(*   the output holds exactly the fetch-trigger markers of C's own render  *)
(*   (the placeholders of the deferred fragments nested in C).             *)
(***************************************************************************)
TargetedOfDeferred(t) ==
    /\ resp[t].class = "fragment"
    /\ resp[t].pc = "rendered"
    /\ NodeAt(template.nodelist, resp[t].node).lazy

WrappedChildren(t) ==
    LET node == NodeAt(template.nodelist, resp[t].node)
    IN /\ resp[t].content =
             FragmentOpenMarkup(node.fragment_name)
                \o RenderNodeList(Children(node))
                \o FragmentCloseMarkup
       /\ resp[t].content = Render([node EXCEPT !.lazy = FALSE], TRUE)

\* C4 as claimed: the output of a targeted render of a deferred fragment holds
\* no fetch-trigger marker.
C4_NoFetchTriggerAnywhere ==
    \A t \in Threads :
        TargetedOfDeferred(t) =>
            /\ WrappedChildren(t)
            /\ ~HasPiece(resp[t].content, "hx-get")
            /\ ~HasPiece(resp[t].content, "hx-trigger")

\* C4 as amended: the output starts with the plain container and holds the
\* fetch-trigger markers of its children's render only.
C4_TargetedIgnoresOwnFlag ==
    \A t \in Threads :
        TargetedOfDeferred(t) =>
            LET node == NodeAt(template.nodelist, resp[t].node)
                inner == RenderNodeList(Children(node))
            IN /\ WrappedChildren(t)
               /\ SubSeq(resp[t].content, 1, 6)
                     = FragmentOpenMarkup(resp[t].htmx_fragment_name)
               /\ CountPieces(resp[t].content, "hx-get")
                     = CountPieces(inner, "hx-get")
               /\ CountPieces(resp[t].content, "hx-trigger")
                     = CountPieces(inner, "hx-trigger")

\* C4, reached: a deferred fragment has been rendered alone and its output
\* holds the placeholder of a deferred fragment nested in it.
C4_Witness ==
    /\ TargetedOfDeferred(1)
    /\ HasPiece(resp[1].content, "hx-trigger")

(***************************************************************************)
(* C5.  A full-page render shows every fragment by its deferred flag: a    *)
(* fragment that is not deferred as its children, rendered the same way,   *)
(* inside one container with the name and the three markers; a deferred    *)
(* one as the placeholder container alone, with the fetch-on-trigger       *)
(* marker and none of its children.                                        *)
(***************************************************************************)
RECURSIVE FullPageMarkup(_)
FullPageMarkup(nodelist) ==
    IF nodelist = <<>> THEN <<>>
    ELSE LET node == Head(nodelist) IN
         (CASE node.kind = "text" -> node.s
            [] node.kind = "block" -> FullPageMarkup(node.nodelist)
            [] node.kind = "extends" ->
                  FullPageMarkup(SelectSeq(node.nodelist,
                                           LAMBDA n : n.kind = "block"))
            [] node.kind = "fragment" ->
                  IF node.lazy
                  THEN LazyPlaceholderMarkup(node.fragment_name)
                  ELSE FragmentOpenMarkup(node.fragment_name)
                          \o FullPageMarkup(Children(node))
                          \o FragmentCloseMarkup)
         \o FullPageMarkup(Tail(nodelist))

\* C5: the page rendered is the markup above, with as many containers opened
\* as closed and a fetch marker for each trigger.
C5_FullPageByDeferredFlag ==
    \A t \in Threads :
        resp[t].class = "page" /\ resp[t].pc = "rendered" =>
            /\ resp[t].content = FullPageMarkup(template.nodelist)
            /\ CountPieces(resp[t].content, "<div")
                  = CountPieces(resp[t].content, "</div>")
            /\ CountPieces(resp[t].content, "hx-get")
                  = CountPieces(resp[t].content, "hx-trigger")

\* C5, reached: a page has been rendered that shows text, a container and a
\* placeholder.
C5_Witness ==
    /\ resp[1].class = "page"
    /\ resp[1].pc = "rendered"
    /\ HasPiece(resp[1].content, "hx-get")
    /\ HasPiece(resp[1].content, "text")
    /\ CountPieces(resp[1].content, "fhx-fragment") >= 2

(***************************************************************************)
(* The view's claims are stated on the request's headers themselves.       *)
(***************************************************************************)
Has(key) == key \in DOMAIN request.headers

Targeted == Has("HX-Request") /\ request.headers["HX-Request"] = <<"true">>

FragmentHeader ==
    IF Has("FHX-Fragment") THEN request.headers["FHX-Fragment"] ELSE <<>>

ActionHeader ==
    IF Has("FHX-Action") THEN request.headers["FHX-Action"] ELSE <<>>

Responded == called.pc = "responded" /\ resp[1].pc # "none"

\* What the locator gives for the fragment the header names.
LocatorOutput ==
    Render(NodeAt(template.nodelist,
                  FirstInDocumentOrder(
                     FragmentPathsNamed(template.nodelist, FragmentHeader))),
           FALSE)

RoutedByHeaders ==
    /\ resp[1].class = "fragment" <=> (Targeted /\ FragmentHeader # <<>>)
    /\ resp[1].class = "page" <=> ~(Targeted /\ FragmentHeader # <<>>)
    /\ resp[1].class = "fragment" =>
          /\ resp[1].htmx_fragment_name = FragmentHeader
          /\ resp[1].pc = "rendered" => resp[1].content = LocatorOutput
    /\ resp[1].class = "page" /\ resp[1].pc = "rendered" =>
          resp[1].content = RenderNodeList(template.nodelist)

(***************************************************************************)
(* C6.  render_to_response answers with the fragment response if and only  *)
(* if the request is targeted and names a fragment, and otherwise with     *)
(* the full page; the fragment response's body is the named fragment's     *)
(* targeted output.                                                        *)
(*   As claimed: its content type is the view's configured content type.   *)
(*   As amended: its content type is the one the caller passed to          *)
(*   render_to_response, and the view's configured one when none was       *)
(*   passed.                                                               *)
(***************************************************************************)
\* C6 as claimed: the fragment response's content type is the view's.
C6_ContentTypeIsTheViews ==
    Responded =>
        /\ RoutedByHeaders
        /\ resp[1].class = "fragment" =>
              resp[1].content_type = view.content_type

\* C6 as amended: the fragment response's content type is the caller's when
\* one was passed, else the view's.
C6_RoutedThroughLocator ==
    Responded =>
        /\ RoutedByHeaders
        /\ resp[1].class = "fragment" =>
              resp[1].content_type =
                 IF "content_type" \in DOMAIN called.kwargs
                 THEN called.kwargs["content_type"]
                 ELSE view.content_type

\* C6, reached: a fragment response has been rendered for a call that passed
\* its own content type.
C6_Witness ==
    /\ Responded
    /\ resp[1].class = "fragment"
    /\ resp[1].pc = "rendered"
    /\ "content_type" \in DOMAIN called.kwargs
    /\ view.content_type = "text/html"

(***************************************************************************)
(* C7.  dispatch on a targeted request derives one handler name, the       *)
(* lowercased method with the action name appended when there is one;     *)
(* the view's callable of that name is invoked instead of the verb's       *)
(* handler; when the view has none, default dispatch runs and no error is  *)
(* raised.  A request that is not targeted always gets default dispatch.   *)
(***************************************************************************)
DerivedName ==
    <<"htmx", Lower(request.method)>>
        \o (IF ActionHeader # <<>> THEN ActionHeader ELSE <<>>)

DefaultDispatchRan ==
    /\ called.pc \in {"verb_handler", "not_allowed", "responded"}
    /\ called.name \in {<<Lower(request.method)>>, <<>>}

\* C7: after dispatch, the view's callable of the derived name was invoked,
\* or else default dispatch ran without an error.
C7_MissFallsThrough ==
    called.pc # "none" =>
        IF Targeted /\ DerivedName \in view.handlers
        THEN /\ called.pc \in {"htmx_handler", "responded"}
             /\ called.name = DerivedName
        ELSE DefaultDispatchRan

(***************************************************************************)
(* C8.  The tag compiles if and only if it has one argument, or two with   *)
(* the second exactly lazy, and the name is not empty once its quotes are  *)
(* stripped; it then opens a fragment of that name, deferred iff the       *)
(* second argument is there.  Anything else is a syntax error raised by    *)
(* the tag, with no node made.                                             *)
(***************************************************************************)
WellFormedTag(tokens) ==
    /\ \/ Len(tokens) = 2
       \/ Len(tokens) = 3 /\ tokens[3] = <<"lazy">>
    /\ Strip(tokens[2], Quotes) # <<>>

\* C8: every step of the tag opens the fragment when the tag is well formed
\* and raises the syntax error, leaving the parse as it was, when it is not.
C8_CompilesIffWellFormed ==
    [][\A tokens \in FragmentTags :
          htmxfragment(MaxNodes, tokens) =>
             IF WellFormedTag(tokens)
             THEN /\ phase' = "parsing"
                  /\ stack'[Len(stack')] =
                        Frame("fragment", Strip(tokens[2], Quotes),
                              Len(tokens) = 3, <<>>)
             ELSE /\ phase' = "error"
                  /\ compileError'.type = "TemplateSyntaxError"
                  /\ stack' = stack]_vars

(***************************************************************************)
(* C9.  The three values are read each from its own header: the request    *)
(* is targeted iff HX-Request is exactly "true"; the fragment name is      *)
(* FHX-Fragment and the action name FHX-Action, "" when the header is      *)
(* absent, whether the request is targeted or not.                         *)
(***************************************************************************)
\* C9: each property equals what its own header says, and only a targeted
\* request reaches an htmx handler or a fragment response.
C9_EachFromItsOwnHeader ==
    request # NoRequest =>
        /\ is_htmx_request(request) <=> Targeted
        /\ htmx_fragment_name(request) = FragmentHeader
        /\ htmx_action_name(request) = ActionHeader
        /\ called.pc \in {"htmx_handler", "type_error"} => Targeted
        /\ resp[1].class = "fragment" => Targeted

\* C9, reached: a request whose HX-Request is "false" reports its fragment
\* and action names and is answered with the full page.
C9_Witness ==
    /\ request # NoRequest
    /\ Has("HX-Request") /\ request.headers["HX-Request"] = <<"false">>
    /\ htmx_fragment_name(request) = <<"a">>
    /\ htmx_action_name(request) = <<"create">>
    /\ ~is_htmx_request(request)
    /\ resp[1].class = "page"

(***************************************************************************)
(* C10.  The template names of a targeted request without an override are  *)
(* a variant of each default name, in order, followed by the default       *)
(* names in order; with an override, the override alone; of a request     *)
(* that is not targeted, the default names.                                *)
(*   As claimed: the variant has the suffix before the file extension.     *)
(*   As amended: the variant has the suffix before a final ".html", and    *)
(*   is the name itself when the name ends otherwise.                      *)
(***************************************************************************)
Extensions == {".html", ".txt"}

WithSuffixBefore(name, extensions) ==
    IF name # <<>> /\ name[Len(name)] \in extensions
    THEN SubSeq(name, 1, Len(name) - 1) \o <<"_htmx", name[Len(name)]>>
    ELSE name

CandidateList(extensions) ==
    LET defaults == view.template_names
        n == Len(defaults)
        names == resp[1].template_name
    IN IF Targeted
       THEN IF view.htmx_template_name # <<>>
            THEN names = <<view.htmx_template_name>>
            ELSE /\ Len(names) = 2 * n
                 /\ \A i \in 1..n :
                       /\ names[i] = WithSuffixBefore(defaults[i], extensions)
                       /\ names[n + i] = defaults[i]
       ELSE names = defaults

\* C10 as claimed: the suffix goes before any file extension.
C10_SuffixBeforeAnyExtension == Responded => CandidateList(Extensions)

\* C10 as amended: the suffix goes before a final ".html" only.
C10_SuffixBeforeHtml == Responded => CandidateList({".html"})

\* C10, reached: a targeted request on a view whose default names are
\* page.txt and page.html has been rendered.
C10_Witness ==
    /\ Responded
    /\ Targeted
    /\ view.htmx_template_name = <<>>
    /\ view.template_names = <<TxtName, PageName>>
    /\ resp[1].pc = "rendered"

====
